---- MODULE Spec2Model ----
(***************************************************************************)
(* A model of scrcpy-web: the per-device session (ScrcpyClient.js) with    *)
(* its stream framer and touch encoder, and the gateway (main.js) with its *)
(* port pool, session registry, device scanner and viewer broadcast.       *)
(*                                                                         *)
(* Five specifications share the module:                                   *)
(*   SpecFramer  one session's framer fed with socket data                 *)
(*   SpecTouch   the touch encoder of one session                          *)
(*   Spec        the gateway: scanner, sessions, ports                     *)
(*   SpecView    the gateway's viewers: keyframe cache, replay, broadcast  *)
(*   SpecPower   the power-state queries issued for the viewers            *)
(* Each leaves the variables of the other parts at their initial value.    *)
(***************************************************************************)
EXTENDS Integers, Sequences, FiniteSets, TLC

VARIABLES
    \* ---- one ScrcpyClient's framer (SpecFramer) ----
    buffer,             \* this.buffer: bytes received and not yet consumed
    readState,          \* this.readState: "HEADER" | "STREAMING"
    streamState,        \* this.streamState: "PACKET_META" | "PACKET_DATA"
    currentPacketSize,  \* this.currentPacketSize
    deviceInfo,         \* this.deviceInfo
    events,             \* the events emitted so far, in order
    wire,               \* per accepted connection: the bytes the peer sends
    rd,                 \* per connection: how many of them were delivered
    accepted,           \* connections accepted by the local server so far
    fed,                \* all delivered chunks, concatenated in delivery order
    calls,              \* number of _processData calls so far (counted to 2)
    \* ---- one ScrcpyClient's control channel (SpecTouch) ----
    socket,             \* this.socket: 0 (null) or the connection accepted last
    touch,              \* the last sendTouch call: its arguments and what it read
    written,            \* the buffer that call wrote to the socket, or <<>>
    thrown,             \* whether that call threw
    \* ---- the gateway, main.js (Spec) ----
    attached,           \* the serials of the devices physically attached
    scanning,           \* the scanner's re-entrancy flag
    scanPc,             \* "awaiting" while getAdbDevices() is in flight, else "idle"
                        \* ("overlapping" would be two scan bodies in flight)
    sessions,           \* every ScrcpyClient constructed so far, by identity
    activeClients,      \* serial => { client, port }
    deviceBuffers,      \* serial => { sps, pps, idr }
    usedPorts,          \* the leased ports
    viewers,            \* the WebSocket connections accepted so far, oldest first
    sent,               \* ghost: every 'video-data' event so far, as <<serial, data>>
    queries,            \* the power-state queries and status timers started so far
    effects,            \* the status messages delivered and key events injected
    lastScan            \* what the last completed scan saw and did

framerVars == <<buffer, readState, streamState, currentPacketSize,
                events, wire, rd, accepted, fed, calls>>
touchVars == <<socket, touch, written, thrown>>

sysVars == <<attached, scanning, scanPc, sessions, activeClients, deviceBuffers,
             usedPorts, lastScan>>

viewVars == <<viewers, sent>>

powerVars == <<queries, effects>>

vars == <<framerVars, deviceInfo, touchVars, sysVars, viewVars, powerVars>>

-----------------------------------------------------------------------------
(* Protocol constants of ScrcpyClient.js                                   *)
HEADER_SIZE == 76
DEVICE_NAME_FIELD_LENGTH == 64
PACKET_META_SIZE == 12

(* Bounds of the framer's inputs                                           *)
MaxPackets == 2

Byte == 0..255

-----------------------------------------------------------------------------
(* Buffer primitives                                                       *)

\* buf.readUInt32BE(off), off counted from 0 as in the source
readUInt32BE(buf, off) ==
    buf[off + 1] * 16777216 + buf[off + 2] * 65536 + buf[off + 3] * 256 + buf[off + 4]

\* buf.subarray(from, to), offsets counted from 0, `to` exclusive and clipped
subarray(buf, from, to) ==
    SubSeq(buf, from + 1, IF to > Len(buf) THEN Len(buf) ELSE to)

\* nameBytes.toString('utf8').replace(/\0/g, ''): every NUL is dropped
DecodeName(nameBytes) == SelectSeq(nameBytes, LAMBDA b : b # 0)

\* the four bytes of n in network byte order
U32BE(n) ==
    <<(n \div 16777216) % 256, (n \div 65536) % 256, (n \div 256) % 256, n % 256>>

-----------------------------------------------------------------------------
(* _processData: the parse loop and the clean-up stage                     *)

ReadyEvent(info) == [type |-> "ready", info |-> info]
VideoEvent(data) == [type |-> "video-data", data |-> data]

\* PACKET_DATA: `if (remaining < this.currentPacketSize) break`
ShortOfPayloadEager(remaining, size) == FALSE
ShortOfPayload(remaining, size) == remaining < size

\* The while loop of _processData on a record
\*   [buffer, offset, readState, streamState, currentPacketSize, deviceInfo, emitted]
RECURSIVE ParseLoop(_)
ParseLoop(s) ==
    LET remaining == Len(s.buffer) - s.offset IN
    IF remaining <= 0 THEN s
    ELSE IF s.readState = "HEADER" THEN
        IF remaining < HEADER_SIZE THEN s
        ELSE
            LET nameBytes == subarray(s.buffer, s.offset, s.offset + DEVICE_NAME_FIELD_LENGTH)
                info == [name   |-> DecodeName(nameBytes),
                         width  |-> readUInt32BE(s.buffer, s.offset + 68),
                         height |-> readUInt32BE(s.buffer, s.offset + 72)]
            IN ParseLoop([s EXCEPT !.deviceInfo = info,
                                   !.emitted = Append(@, ReadyEvent(info)),
                                   !.offset = @ + HEADER_SIZE,
                                   !.readState = "STREAMING"])
    ELSE IF s.streamState = "PACKET_META" THEN
        IF remaining < PACKET_META_SIZE THEN s
        ELSE ParseLoop([s EXCEPT !.currentPacketSize = readUInt32BE(s.buffer, s.offset + 8),
                                 !.offset = @ + PACKET_META_SIZE,
                                 !.streamState = "PACKET_DATA"])
    ELSE
        IF ShortOfPayload(remaining, s.currentPacketSize) THEN s
        ELSE
            LET videoData == subarray(s.buffer, s.offset, s.offset + s.currentPacketSize)
            IN ParseLoop([s EXCEPT !.emitted = Append(@, VideoEvent(videoData)),
                                   !.offset = @ + s.currentPacketSize,
                                   !.streamState = "PACKET_META"])

\* The buffer the call starts to parse: concat only when bytes were left over
AccumulateFresh(buf, chunk) == chunk
Accumulate(buf, chunk) == IF Len(buf) > 0 THEN buf \o chunk ELSE chunk

\* The clean-up stage: what stays in this.buffer after the loop
Retain(buf, offset) ==
    IF offset = Len(buf) THEN <<>>
    ELSE IF offset > 0 THEN subarray(buf, offset, Len(buf))
    ELSE buf

\* _processData(chunk) on a framer record f; the result carries the events
\* of this call in `emitted`
ProcessData(f, chunk) ==
    LET s == ParseLoop([buffer            |-> Accumulate(f.buffer, chunk),
                        offset            |-> 0,
                        readState         |-> f.readState,
                        streamState       |-> f.streamState,
                        currentPacketSize |-> f.currentPacketSize,
                        deviceInfo        |-> f.deviceInfo,
                        emitted           |-> <<>>])
    IN [buffer            |-> Retain(s.buffer, s.offset),
        readState         |-> s.readState,
        streamState       |-> s.streamState,
        currentPacketSize |-> s.currentPacketSize,
        deviceInfo        |-> s.deviceInfo,
        emitted           |-> s.emitted]

\* The framer fields as the constructor leaves them
NewFramer ==
    [buffer            |-> <<>>,
     readState         |-> "HEADER",
     streamState       |-> "PACKET_META",
     currentPacketSize |-> 0,
     deviceInfo        |-> [name |-> <<>>, width |-> 0, height |-> 0],
     emitted           |-> <<>>]

-----------------------------------------------------------------------------
(* The byte streams an agent sends                                         *)

\* 76-byte header: 64 bytes of NUL-padded name, 4 ignored, width, height
MkHeader(name, width, height) ==
    name \o [i \in 1..(DEVICE_NAME_FIELD_LENGTH - Len(name)) |-> 0]
         \o <<104, 50, 54, 52>> \o U32BE(width) \o U32BE(height)

\* packet k with an n-byte payload: 8 bytes of timestamp, the size, the payload
MkPayload(k, n) == [j \in 1..n |-> 16 * k + j]
MkPacket(k, n) == <<0, 0, 0, 0, 0, 0, 0, k>> \o U32BE(n) \o MkPayload(k, n)

RECURSIVE MkPackets(_, _)
MkPackets(sizes, k) ==
    IF k > Len(sizes) THEN <<>>
    ELSE MkPacket(k, sizes[k]) \o MkPackets(sizes, k + 1)

PayloadSizes == {0, 1, 5}
SizeSeqs == UNION {[1..n -> PayloadSizes] : n \in 0..MaxPackets}
HeaderDims == {<<1080, 2400>>}
DeviceName == <<80, 105, 120>>

MkStream(dims, sizes) ==
    MkHeader(DeviceName, dims[1], dims[2]) \o MkPackets(sizes, 1)

\* what the agent's second (control) connection sends: one device message
DeviceMsg == <<0, 0, 0, 0, 2, 111, 107>>

\* a stream whose first packet meta declares a 256 MiB payload, followed by
\* the few bytes that arrive before the stream stalls
OversizeDeclared == 2 ^ 28
OversizeStream ==
    MkHeader(DeviceName, 1080, 2400)
        \o <<0, 0, 0, 0, 0, 0, 0, 1>> \o U32BE(OversizeDeclared) \o <<1, 2, 3>>

\* the streams of the connections of one session: the video connection alone,
\* or the video connection and a control connection
WireSet ==
    {<<MkStream(d, sz)>> : d \in HeaderDims, sz \in SizeSeqs}
    \cup {<<MkStream(<<1080, 2400>>, <<1>>), DeviceMsg>>}
    \cup {<<OversizeStream>>}

\* the control-channel variables while no touch is modelled
IdleTouch ==
    /\ socket = 0
    /\ touch = <<>>
    /\ written = <<>>
    /\ thrown = FALSE

\* the gateway variables while no gateway is modelled
IdleSys ==
    /\ attached = {}
    /\ scanning = FALSE
    /\ scanPc = "idle"
    /\ sessions = <<>>
    /\ activeClients = <<>>
    /\ deviceBuffers = <<>>
    /\ usedPorts = {}
    /\ lastScan = [n |-> 0, seen |-> {}, repeat |-> FALSE, exhausted |-> ""]
    /\ viewers = <<>>
    /\ sent = <<>>
    /\ queries = <<>>
    /\ effects = <<>>

\* the framer variables while no stream is modelled
IdleFramer ==
    /\ wire = <<>>
    /\ rd = [c \in 1..2 |-> 0]
    /\ accepted = 0
    /\ fed = <<>>
    /\ calls = 0
    /\ buffer = NewFramer.buffer
    /\ readState = NewFramer.readState
    /\ streamState = NewFramer.streamState
    /\ currentPacketSize = NewFramer.currentPacketSize
    /\ events = <<>>

-----------------------------------------------------------------------------
(* SpecFramer: one session's local server accepts connections and every    *)
(* accepted socket hands its chunks to _processData                        *)

Framer ==
    [buffer            |-> buffer,
     readState         |-> readState,
     streamState       |-> streamState,
     currentPacketSize |-> currentPacketSize,
     deviceInfo        |-> deviceInfo,
     emitted           |-> <<>>]

InitFramer ==
    /\ wire \in WireSet
    /\ rd = [c \in 1..2 |-> 0]
    /\ accepted = 0
    /\ fed = <<>>
    /\ calls = 0
    /\ buffer = NewFramer.buffer
    /\ readState = NewFramer.readState
    /\ streamState = NewFramer.streamState
    /\ currentPacketSize = NewFramer.currentPacketSize
    /\ deviceInfo = NewFramer.deviceInfo
    /\ events = <<>>
    /\ IdleTouch
    /\ IdleSys

\* net.createServer callback: a connection is accepted, its 'data' handler set
AcceptReset ==
    /\ accepted < Len(wire)
    /\ accepted' = accepted + 1
    /\ socket' = accepted + 1
    /\ readState' = "HEADER"
    /\ UNCHANGED <<buffer, streamState, currentPacketSize,
                   deviceInfo, events, wire, rd, fed, calls, touch, written, thrown,
                   sysVars, viewVars, powerVars>>
Accept ==
    /\ accepted < Len(wire)
    /\ accepted' = accepted + 1
    /\ socket' = accepted + 1
    /\ UNCHANGED <<buffer, readState, streamState, currentPacketSize,
                   deviceInfo, events, wire, rd, fed, calls, touch, written, thrown,
                   sysVars, viewVars, powerVars>>

\* the chunk sizes connection c may deliver next: the video connection any
\* split, the control connection its message whole
ChunkSizes(c) ==
    IF c = 1 THEN 1..(Len(wire[c]) - rd[c])
    ELSE IF rd[c] = 0 THEN {Len(wire[c])} ELSE {}

\* socket.on('data', chunk => this._processData(chunk)) of connection c
SocketData(c, n) ==
    LET chunk == SubSeq(wire[c], rd[c] + 1, rd[c] + n)
        f == ProcessData(Framer, chunk)
    IN /\ buffer' = f.buffer
       /\ readState' = f.readState
       /\ streamState' = f.streamState
       /\ currentPacketSize' = f.currentPacketSize
       /\ deviceInfo' = f.deviceInfo
       /\ events' = events \o f.emitted
       /\ rd' = [rd EXCEPT ![c] = @ + n]
       /\ fed' = fed \o chunk
       /\ calls' = IF calls < 2 THEN calls + 1 ELSE calls
       /\ UNCHANGED <<wire, accepted, touchVars, sysVars, viewVars, powerVars>>

Data ==
    \E c \in 1..accepted : \E n \in ChunkSizes(c) : SocketData(c, n)

NextFramer == Accept \/ Data

SpecFramer == InitFramer /\ [][NextFramer]_vars

-----------------------------------------------------------------------------
(* Claims about the framer (SpecFramer)                                    *)

\* the chunk handed to _processData in a step
StepChunk == SubSeq(fed', Len(fed) + 1, Len(fed'))

\* C1 - Framer determinism: however the bytes delivered so far were split
\* into chunks, the events emitted and the bytes retained are those of one
\* _processData call on all of them at once; nothing is lost or duplicated.
C1_Determinism ==
    LET one == ProcessData(NewFramer, fed)
    IN /\ events = one.emitted
       /\ buffer = one.buffer
       /\ readState = one.readState
       /\ streamState = one.streamState
       /\ currentPacketSize = one.currentPacketSize

\* a header and two packets (the first empty, the second of 5 bytes) were
\* delivered completely in more than one chunk
C1_Witness ==
    /\ Len(wire) = 1
    /\ rd[1] = Len(wire[1])
    /\ calls >= 2
    /\ Len(events) = 3
    /\ events[2] = VideoEvent(<<>>)
    /\ events[3] = VideoEvent(MkPayload(2, 5))

\* C2 - Framer blocking: while fewer than currentPacketSize payload bytes
\* are buffered nothing is emitted and the partial payload is retained; the
\* chunk that brings the missing bytes emits the packet with its full
\* declared payload, once.
C2_Blocked ==
    streamState = "PACKET_DATA" =>
        \/ Len(buffer) < currentPacketSize
        \/ Len(buffer) = 0
C2_Step ==
    (streamState = "PACKET_DATA" /\ Len(buffer) < currentPacketSize /\ fed' # fed) =>
        LET need == currentPacketSize - Len(buffer)
            all == buffer \o StepChunk
        IN IF Len(StepChunk) < need
           THEN /\ events' = events
                /\ buffer' = all
                /\ streamState' = "PACKET_DATA"
                /\ currentPacketSize' = currentPacketSize
           ELSE /\ Len(events') > Len(events)
                /\ events'[Len(events) + 1] = VideoEvent(SubSeq(all, 1, currentPacketSize))
                /\ Len(StepChunk) = need => events' = Append(events, VideoEvent(all))
C2_Blocking == [](C2_Blocked) /\ [][C2_Step]_vars

\* header + meta(size 5) + 3 payload bytes delivered: nothing but 'ready'
\* was emitted and the 3 bytes are held
C2_Witness ==
    /\ streamState = "PACKET_DATA"
    /\ currentPacketSize = 5
    /\ Len(buffer) = 3
    /\ Len(fed) = HEADER_SIZE + PACKET_META_SIZE + 3
    /\ Len(events) = 1

\* the bytes consumed by a sequence of events: the header for 'ready', a
\* meta and the payload for each 'video-data'
RECURSIVE ConsumedBy(_)
ConsumedBy(evs) ==
    IF evs = <<>> THEN 0
    ELSE (IF Head(evs).type = "ready" THEN HEADER_SIZE
          ELSE PACKET_META_SIZE + Len(Head(evs).data)) + ConsumedBy(Tail(evs))

\* C3 - 'ready' is emitted exactly once, first: as soon as 76 bytes have
\* arrived (over whichever connections) the first event is 'ready', every
\* later event is 'video-data', the framer never returns to HEADER, and the
\* bytes consumed are the header and then whole meta/payload pairs.
C3_Shape ==
    /\ (readState = "STREAMING") <=> (Len(fed) >= HEADER_SIZE)
    /\ (readState = "STREAMING") <=> (Len(events) >= 1)
    /\ \A i \in 1..Len(events) :
          events[i].type = (IF i = 1 THEN "ready" ELSE "video-data")
    /\ streamState \in {"PACKET_META", "PACKET_DATA"}
    /\ Len(fed) - Len(buffer) =
          ConsumedBy(events) + (IF streamState = "PACKET_DATA" THEN PACKET_META_SIZE ELSE 0)
C3_Step ==
    /\ readState = "STREAMING" => readState' = "STREAMING"
    /\ Len(events) >= 1 => SubSeq(events', 1, Len(events)) = events
C3_ReadyOnce == [](C3_Shape) /\ [][C3_Step]_vars

\* data of a second accepted connection was parsed after the header
C3_Witness ==
    /\ accepted = 2
    /\ rd[2] > 0
    /\ rd[1] > HEADER_SIZE
    /\ readState = "STREAMING"
    /\ Len(events) >= 1

\* a payload size no video packet of the agent reaches (16 MiB)
SanePayloadCeiling == 2 ^ 24

\* C17: when a packet meta declares a payload size above the sane payload
\* ceiling the framer raises a framing error (an 'error' event) instead of
\* entering PACKET_DATA to wait for that many bytes.
C17_FramingError ==
    (readState = "STREAMING" /\ currentPacketSize > SanePayloadCeiling) =>
        /\ \E k \in 1..Len(events) : events[k].type = "error"
        /\ streamState # "PACKET_DATA"

-----------------------------------------------------------------------------
(* sendTouch: the 32-byte touch message                                    *)

\* touch fractions are the multiples of 1 / 2^FracBits, which a double holds
\* exactly, as it holds their product with a dimension below 2^32
FracBits == 3
FracDen == 2 ^ FracBits

\* Math.round(num / den), den > 0: the nearest integer, a tie towards +Infinity
MathFloor(num, den) == num \div den
MathRound(num, den) == (2 * num + den) \div (2 * den)

\* Buffer.alloc(32)
Alloc32 == [i \in 1..32 |-> 0]

\* the range checks of the Buffer write methods (they throw RangeError)
FitsUInt8(v) == v >= 0 /\ v <= 255
FitsUInt16(v) == v >= 0 /\ v <= 65535
FitsInt32(v) == v >= (-2147483647) - 1 /\ v <= 2147483647
FitsUInt32(v) == v >= 0

\* a buffer write: the method, the value and the offset (counted from 0)
Width(w) == IF w.method = "UInt8" THEN 1 ELSE IF w.method = "UInt16BE" THEN 2 ELSE 4
Fits(w) ==
    IF w.method = "UInt8" THEN FitsUInt8(w.value)
    ELSE IF w.method = "UInt16BE" THEN FitsUInt16(w.value)
    ELSE IF w.method = "Int32BE" THEN FitsInt32(w.value)
    ELSE FitsUInt32(w.value)
Covers(w, i) == i > w.offset /\ i <= w.offset + Width(w)

\* byte i of the buffer after write w: the bytes of the value, most
\* significant first (two's complement when it is negative)
ByteOf(w, i) == (w.value \div (256 ^ (w.offset + Width(w) - i))) % 256

\* the buffer after the writes ws in order, or RangeError when one throws
RangeError == <<"RangeError">>
ApplyWrites(buf, ws) ==
    IF \E k \in 1..Len(ws) : ~ Fits(ws[k]) THEN RangeError
    ELSE [i \in 1..Len(buf) |->
            LET hit == {k \in 1..Len(ws) : Covers(ws[k], i)}
            IN IF hit = {} THEN buf[i]
               ELSE ByteOf(ws[CHOOSE k \in hit : \A m \in hit : m <= k], i)]

Wr(method, value, offset) == [method |-> method, value |-> value, offset |-> offset]

\* the writes of sendTouch(action, xPercent, yPercent) with
\* xPercent = xn / FracDen and yPercent = yn / FracDen, in source order
TouchWritesPressureFirst(action, xn, yn, info) ==
    <<Wr("UInt8", 2, 0),
      Wr("UInt8", action, 1),
      Wr("Int32BE", MathRound(xn * info.width, FracDen), 10),
      Wr("Int32BE", MathRound(yn * info.height, FracDen), 14),
      Wr("UInt16BE", IF action = 1 THEN 0 ELSE 65535, 18),
      Wr("UInt16BE", info.width, 20),
      Wr("UInt16BE", info.height, 22),
      Wr("UInt32BE", 1, 24),
      Wr("Int32BE", 0, 28)>>
TouchWrites(action, xn, yn, info) ==
    <<Wr("UInt8", 2, 0),
      Wr("UInt8", action, 1),
      Wr("Int32BE", MathRound(xn * info.width, FracDen), 10),
      Wr("Int32BE", MathRound(yn * info.height, FracDen), 14),
      Wr("UInt16BE", info.width, 18),
      Wr("UInt16BE", info.height, 20),
      Wr("UInt16BE", IF action = 1 THEN 0 ELSE 65535, 22),
      Wr("UInt32BE", 1, 24),
      Wr("Int32BE", 0, 28)>>

\* sendTouch past its guard: the buffer handed to socket.write, or
\* RangeError when a write method throws
EncodeTouch(action, xn, yn, info) ==
    ApplyWrites(Alloc32, TouchWrites(action, xn, yn, info))

\* `if (!this.socket || !this.deviceInfo.width) return`
TouchGuard == socket # 0 /\ deviceInfo.width # 0

-----------------------------------------------------------------------------
(* SpecTouch: a session whose agent connects and sends its header, and a   *)
(* viewer sending touch messages at any time                               *)

TouchDims == {<<1080, 2400>>, <<3, 5>>, <<0, 0>>, <<65535, 7>>, <<70000, 100>>}
TouchActions == {0, 1, 2}
TouchXNums == (-1)..(FracDen + 1)
TouchYNums == {0, 1, FracDen \div 2, FracDen}

InitTouch ==
    /\ wire \in {<<MkHeader(DeviceName, d[1], d[2])>> : d \in TouchDims}
    /\ rd = [c \in 1..2 |-> 0]
    /\ accepted = 0
    /\ fed = <<>>
    /\ calls = 0
    /\ buffer = NewFramer.buffer
    /\ readState = NewFramer.readState
    /\ streamState = NewFramer.streamState
    /\ currentPacketSize = NewFramer.currentPacketSize
    /\ deviceInfo = NewFramer.deviceInfo
    /\ events = <<>>
    /\ IdleTouch
    /\ IdleSys

\* the agent's header arrives in one chunk
HeaderData ==
    /\ accepted >= 1
    /\ rd[1] = 0
    /\ SocketData(1, Len(wire[1]))

\* sendTouch(action, xn / FracDen, yn / FracDen)
TouchOutcome(action, xn, yn) ==
    IF TouchGuard THEN EncodeTouch(action, xn, yn, deviceInfo) ELSE <<>>

SendTouch(action, xn, yn) ==
    \E out \in {TouchOutcome(action, xn, yn)} :
        /\ touch' = [action |-> action, xn |-> xn, yn |-> yn,
                     width |-> deviceInfo.width, height |-> deviceInfo.height,
                     socket |-> socket]
        /\ thrown' = (Len(out) = 1)
        /\ written' = (IF Len(out) = 1 THEN <<>> ELSE out)
        /\ UNCHANGED <<framerVars, deviceInfo, socket, sysVars, viewVars, powerVars>>

Touch ==
    \E action \in TouchActions, xn \in TouchXNums, yn \in TouchYNums :
        SendTouch(action, xn, yn)

NextTouch == Accept \/ HeaderData \/ Touch

SpecTouch == InitTouch /\ [][NextTouch]_vars

-----------------------------------------------------------------------------
(* Claims about the touch encoder (SpecTouch)                              *)

\* the signed 32-bit big-endian integer at offset off (counted from 0)
Int32At(buf, off) ==
    (IF buf[off + 1] >= 128 THEN buf[off + 1] - 256 ELSE buf[off + 1]) * 16777216
    + buf[off + 2] * 65536 + buf[off + 3] * 256 + buf[off + 4]

\* r is num / den rounded to the nearest integer (a tie rounds up)
IsNearest(r, num, den) == 2 * den * r - 2 * num > -den /\ 2 * den * r - 2 * num <= den

\* C10 - Touch scaling: a touch with fractions in [0,1] on a session whose
\* socket is open and whose header gave dimensions that fit the message
\* writes a message with round(x * width) at bytes [10,14) and
\* round(y * height) at bytes [14,18), big-endian int32; action 0 at
\* (0.5, 0.5) on 1080x2400 carries x = 540, y = 1200.
C10_TouchScaling ==
    (/\ touch # <<>>
     /\ touch.xn \in 0..FracDen /\ touch.yn \in 0..FracDen) =>
        /\ (written # <<>>) <=>
              (/\ touch.socket # 0
               /\ touch.width \in 1..65535
               /\ touch.height \in 0..65535)
        /\ written # <<>> =>
              /\ Len(written) = 32
              /\ IsNearest(Int32At(written, 10), touch.xn * touch.width, FracDen)
              /\ IsNearest(Int32At(written, 14), touch.yn * touch.height, FracDen)
        /\ (/\ touch.socket # 0
            /\ touch.action = 0
            /\ touch.xn * 2 = FracDen /\ touch.yn * 2 = FracDen
            /\ touch.width = 1080 /\ touch.height = 2400) =>
              /\ written # <<>>
              /\ Int32At(written, 10) = 540
              /\ Int32At(written, 14) = 1200

\* the example of the claim was encoded and written
C10_Witness ==
    /\ touch # <<>>
    /\ touch.action = 0
    /\ touch.xn * 2 = FracDen /\ touch.yn * 2 = FracDen
    /\ touch.width = 1080 /\ touch.height = 2400
    /\ written # <<>>
    /\ Int32At(written, 10) = 540
    /\ Int32At(written, 14) = 1200

\* the unsigned big-endian integers at offset off (counted from 0)
UInt16At(buf, off) == buf[off + 1] * 256 + buf[off + 2]
UInt32At(buf, off) ==
    buf[off + 1] * 16777216 + buf[off + 2] * 65536 + buf[off + 3] * 256 + buf[off + 4]

\* the pressure field: 0 when the action is up (1), 65535 otherwise
Pressure(action) == IF action = 1 THEN 0 ELSE 65535

\* C11 as stated - Touch message layout: every encoded touch message is 32
\* bytes with byte [0] the touch class (2), byte [1] the action, bytes
\* [18,20) the pressure, [20,22) the device width, [22,24) the device
\* height, [24,28) the constant 1 and [28,32) the constant 0.
C11_LayoutAsStated ==
    written # <<>> =>
        /\ Len(written) = 32
        /\ written[1] = 2
        /\ written[2] = touch.action
        /\ UInt16At(written, 18) = Pressure(touch.action)
        /\ UInt16At(written, 20) = touch.width
        /\ UInt16At(written, 22) = touch.height
        /\ UInt32At(written, 24) = 1
        /\ Int32At(written, 28) = 0

\* C11 amended - every encoded touch message is 32 bytes with byte [0] the
\* touch class (2), byte [1] the action, bytes [2,10) zero, bytes [18,20)
\* the device width, [20,22) the device height, [22,24) the pressure (0 when
\* the action is up, 65535 otherwise), [24,28) the constant 1 and [28,32)
\* the constant 0.
C11_TouchLayout ==
    written # <<>> =>
        /\ Len(written) = 32
        /\ written[1] = 2
        /\ written[2] = touch.action
        /\ \A i \in 3..10 : written[i] = 0
        /\ UInt16At(written, 18) = touch.width
        /\ UInt16At(written, 20) = touch.height
        /\ UInt16At(written, 22) = Pressure(touch.action)
        /\ UInt32At(written, 24) = 1
        /\ Int32At(written, 28) = 0

\* an up and a non-up message were encoded on a 1080x2400 device
C11_Witness ==
    /\ written # <<>>
    /\ touch.width = 1080 /\ touch.height = 2400
    /\ touch.action = 2
    /\ UInt16At(written, 22) = 65535
    /\ UInt16At(written, 18) = 1080

\* C21 - Touch field clamping: whatever the fractions and whatever the
\* dimensions of the header, a touch sent past the guard of sendTouch never
\* fails: no write throws and the 32-byte message is produced, a dimension
\* above 65535 being clamped to 65535 in its uint16 field.
C21_TouchClamping ==
    (/\ touch # <<>>
     /\ touch.socket # 0
     /\ touch.width # 0) =>
        /\ ~ thrown
        /\ Len(written) = 32
        /\ UInt16At(written, 18) = (IF touch.width > 65535 THEN 65535 ELSE touch.width)
        /\ UInt16At(written, 20) = (IF touch.height > 65535 THEN 65535 ELSE touch.height)

-----------------------------------------------------------------------------
(* The gateway: port pool, sessions, registry and device scanner           *)

\* the serials of the devices that can be attached
Devices == {"A", "B"}

\* bounds: the size of the port range (27183..27999 in the source) and the
\* number of ScrcpyClient objects constructed in a run
NumPorts == 1
MaxSessions == 2

\* allocPort scans PORT_LOW, PORT_LOW + 1, ... up to the end of the range
PORT_LOW == 27183
PortRange == PORT_LOW..(PORT_LOW + NumPorts - 1)

SetMin(S) == CHOOSE x \in S : \A y \in S : x <= y

\* allocPort(): the lowest port not leased, or 0 for `throw new Error(...)`
allocPortAny(used) == IF PortRange \ used = {} THEN PORT_LOW ELSE SetMin(PortRange \ used)
allocPort(used) == IF PortRange \ used = {} THEN 0 ELSE SetMin(PortRange \ used)

\* freePort(p)
freePort(used, p) == used \ {p}

\* new ScrcpyClient(serial, { port }) followed by client.start(), which runs
\* up to its first await: `adb reverse --remove-all` is in flight
NewSession(serial, port) ==
    [serial      |-> serial,
     port        |-> port,
     pc          |-> "removeAll",   \* the step start() awaits, or started / failed
     localServer |-> "null",        \* null | listening | unbound (listen failed)
     socket      |-> "null",        \* this.socket: null | open | closed
     adbProcess  |-> FALSE,         \* this.adbProcess is set
     proc        |-> "none",        \* the agent subprocess: none | running | killed | exited
     stopped     |-> FALSE,         \* stop() has run and emitted 'stopped'
     stops       |-> 0]             \* the 'stopped' events emitted so far

\* stop()
Stop(s) ==
    [s EXCEPT !.socket = "null",
              !.localServer = "null",
              !.adbProcess = FALSE,
              !.proc = IF s.adbProcess /\ s.proc = "running" THEN "killed" ELSE s.proc,
              !.stopped = TRUE,
              !.stops = @ + 1]

\* the catch block of start(): emit 'error', stop()
StartFailed(s) == [Stop(s) EXCEPT !.pc = "failed"]

\* a session holds a live listener, socket or agent subprocess
Live(s) ==
    \/ s.localServer = "listening"
    \/ s.socket = "open"
    \/ s.proc \in {"running", "killed"}

\* server.listen(port) succeeds unless another listener holds the port
PortFree(port, id) ==
    \A j \in 1..Len(sessions) :
        j # id => ~ (sessions[j].localServer = "listening" /\ sessions[j].port = port)

InitSys ==
    /\ attached = {}
    /\ scanning = FALSE
    /\ scanPc = "idle"
    /\ sessions = <<>>
    /\ activeClients = <<>>
    /\ deviceBuffers = <<>>
    /\ usedPorts = {}
    /\ lastScan = [n |-> 0, seen |-> {}, repeat |-> FALSE, exhausted |-> ""]

\* no viewer has connected, no packet has been emitted
IdleView ==
    /\ viewers = <<>>
    /\ sent = <<>>
    /\ queries = <<>>
    /\ effects = <<>>

Init ==
    /\ InitSys
    /\ IdleFramer
    /\ deviceInfo = NewFramer.deviceInfo
    /\ IdleTouch
    /\ IdleView

SysIdle == UNCHANGED <<framerVars, deviceInfo, touchVars, viewVars, powerVars>>

\* ---- the environment: devices come and go ----
Attach(d) ==
    /\ d \notin attached
    /\ attached' = attached \cup {d}
    /\ UNCHANGED <<scanning, scanPc, sessions, activeClients, deviceBuffers, usedPorts,
                   lastScan>>
    /\ SysIdle

Detach(d) ==
    /\ d \in attached
    /\ attached' = attached \ {d}
    /\ UNCHANGED <<scanning, scanPc, sessions, activeClients, deviceBuffers, usedPorts,
                   lastScan>>
    /\ SysIdle

\* ---- ScrcpyClient.start(), one action per awaited step ----
SetSession(id, s) ==
    /\ sessions' = [sessions EXCEPT ![id] = s]
    /\ UNCHANGED <<attached, scanning, scanPc, activeClients, deviceBuffers, usedPorts,
                   lastScan>>
    /\ SysIdle

\* an adb command on the device succeeds only while the device is attached
AdbOutcomes(s) == IF s.serial \in attached THEN {TRUE, FALSE} ELSE {FALSE}

\* `adb reverse --remove-all` ends; on success _setupLocalServer creates the
\* server and listens, and the push is spawned once it listens
RemoveAllDone(id) ==
    /\ id \in 1..Len(sessions)
    /\ sessions[id].pc = "removeAll"
    /\ \E ok \in AdbOutcomes(sessions[id]) :
         LET s == sessions[id] IN
         IF ~ ok THEN SetSession(id, StartFailed(s))
         ELSE IF PortFree(s.port, id)
              THEN SetSession(id, [s EXCEPT !.localServer = "listening", !.pc = "push"])
              ELSE SetSession(id, StartFailed([s EXCEPT !.localServer = "unbound"]))

\* `adb push` ends
PushDone(id) ==
    /\ id \in 1..Len(sessions)
    /\ sessions[id].pc = "push"
    /\ \E ok \in AdbOutcomes(sessions[id]) :
         LET s == sessions[id] IN
         IF ok THEN SetSession(id, [s EXCEPT !.pc = "reverse"])
         ELSE SetSession(id, StartFailed(s))

\* `adb reverse localabstract:scrcpy tcp:port` ends
ReverseDone(id) ==
    /\ id \in 1..Len(sessions)
    /\ sessions[id].pc = "reverse"
    /\ \E ok \in AdbOutcomes(sessions[id]) :
         LET s == sessions[id] IN
         IF ok THEN SetSession(id, [s EXCEPT !.pc = "delay"])
         ELSE SetSession(id, StartFailed(s))

\* the 500 ms timer fires: _spawnServerProcess()
DelayDone(id) ==
    /\ id \in 1..Len(sessions)
    /\ sessions[id].pc = "delay"
    /\ SetSession(id, [sessions[id] EXCEPT !.adbProcess = TRUE,
                                           !.proc = "running",
                                           !.pc = "started"])

\* ---- callbacks of a session ----
\* adbProcess.on('close'): the agent subprocess ended; stop()
ProcClose(id) ==
    /\ id \in 1..Len(sessions)
    /\ sessions[id].proc \in {"running", "killed"}
    /\ SetSession(id, Stop([sessions[id] EXCEPT !.proc = "exited"]))

\* the agent of this device dials back through the tunnel to the port:
\* the net.createServer callback sets this.socket
AgentConnect(id) ==
    /\ id \in 1..Len(sessions)
    /\ sessions[id].localServer = "listening"
    /\ sessions[id].socket # "open"
    /\ \E j \in 1..Len(sessions) :
         /\ sessions[j].proc = "running"
         /\ sessions[j].serial = sessions[id].serial
         /\ sessions[j].port = sessions[id].port
    /\ SetSession(id, [sessions[id] EXCEPT !.socket = "open"])

\* socket.on('close'): the peer closed; this.socket keeps the dead socket
SocketClose(id) ==
    /\ id \in 1..Len(sessions)
    /\ sessions[id].socket = "open"
    /\ SetSession(id, [sessions[id] EXCEPT !.socket = "closed"])

\* ---- deviceScanner ----
Range(f) == {f[x] : x \in DOMAIN f}

\* the permutations of a set, as sequences
Perms(S) ==
    {f \in [1..Cardinality(S) -> S] : \A i, j \in 1..Cardinality(S) : f[i] = f[j] => i = j}

\* what getAdbDevices() resolves to: the attached devices in the order adb
\* lists them, or [] when adb could not be spawned
GetAdbDevices == Perms(attached) \cup {<<>>}

Restrict(f, S) == [x \in S |-> f[x]]

\* the gateway's maps and pool as one record, for the loops of the scanner
Gateway ==
    [sessions      |-> sessions,
     activeClients |-> activeClients,
     deviceBuffers |-> deviceBuffers,
     usedPorts     |-> usedPorts,
     exhausted     |-> ""]

\* `!currentSerials.has(serial)` over the registry
GoneAll(g, currentSerials) == DOMAIN g.activeClients
GoneNone(g, currentSerials) == {}
Gone(g, currentSerials) == {d \in DOMAIN g.activeClients : d \notin currentSerials}

\* the first loop: stop, free and forget every registered device not listed
RemoveGoneKeepCache(g, currentSerials) ==
    LET gone == Gone(g, currentSerials)
        stoppedIds == {g.activeClients[d].client : d \in gone}
    IN [g EXCEPT
          !.sessions = [id \in 1..Len(g.sessions) |->
                          IF id \in stoppedIds THEN Stop(g.sessions[id]) ELSE g.sessions[id]],
          !.usedPorts = g.usedPorts \ {g.activeClients[d].port : d \in gone},
          !.activeClients = Restrict(g.activeClients, DOMAIN g.activeClients \ gone)]
RemoveGone(g, currentSerials) ==
    LET gone == Gone(g, currentSerials)
        stoppedIds == {g.activeClients[d].client : d \in gone}
    IN [g EXCEPT
          !.sessions = [id \in 1..Len(g.sessions) |->
                          IF id \in stoppedIds THEN Stop(g.sessions[id]) ELSE g.sessions[id]],
          !.usedPorts = g.usedPorts \ {g.activeClients[d].port : d \in gone},
          !.activeClients = Restrict(g.activeClients, DOMAIN g.activeClients \ gone),
          !.deviceBuffers = Restrict(g.deviceBuffers, DOMAIN g.deviceBuffers \ gone)]

EmptyCache == [sps |-> <<>>, pps |-> <<>>, idr |-> <<>>]

\* the second loop, from device i on; allocPort throwing ends it
RECURSIVE AddNew(_, _, _)
AddNew(g, devices, i) ==
    IF i > Len(devices) THEN g
    ELSE LET d == devices[i] IN
         IF d \in DOMAIN g.activeClients THEN AddNew(g, devices, i + 1)
         ELSE LET port == allocPort(g.usedPorts) IN
              IF port = 0 THEN [g EXCEPT !.exhausted = d]
              ELSE LET id == Len(g.sessions) + 1 IN
                   AddNew([g EXCEPT
                             !.usedPorts = @ \cup {port},
                             !.sessions = Append(@, NewSession(d, port)),
                             !.activeClients = (d :> [client |-> id, port |-> port]) @@ @,
                             !.deviceBuffers = (d :> EmptyCache) @@ @],
                          devices, i + 1)

\* the body of deviceScanner after `await getAdbDevices()`
ScanBody(g, devices) == AddNew(RemoveGone(g, Range(devices)), devices, 1)

\* `if (scanning) return`: the tick finds the flag taken
BusyNever == FALSE
Busy == scanning

\* a tick that passes the guard: take the flag, spawn `adb devices`; a scan
\* body entered while another one awaits would make them overlap
ScanStart ==
    /\ ~ Busy
    /\ scanning' = TRUE
    /\ scanPc' = (IF scanPc = "idle" THEN "awaiting" ELSE "overlapping")
    /\ UNCHANGED <<attached, sessions, activeClients, deviceBuffers, usedPorts, lastScan>>
    /\ SysIdle

\* a tick while a scan is in flight: `if (scanning) return`
ScanSkip ==
    /\ Busy
    /\ UNCHANGED sysVars
    /\ SysIdle

\* the flag after the try / catch / finally of the scanner
FlagAfterScan(g) == FALSE

\* getAdbDevices() resolves: both loops run, the flag is released
ScanDone ==
    /\ scanPc = "awaiting"
    /\ \E devices \in GetAdbDevices :
         LET g == ScanBody(Gateway, devices) IN
         /\ Len(g.sessions) <= MaxSessions
         /\ sessions' = g.sessions
         /\ activeClients' = g.activeClients
         /\ deviceBuffers' = g.deviceBuffers
         /\ usedPorts' = g.usedPorts
         /\ lastScan' = [n         |-> 1,
                         seen      |-> Range(devices),
                         repeat    |-> lastScan.n = 1 /\ lastScan.seen = Range(devices),
                         exhausted |-> g.exhausted]
         /\ scanning' = FlagAfterScan(g)
    /\ scanPc' = "idle"
    /\ UNCHANGED attached
    /\ SysIdle

Next ==
    \/ \E d \in Devices : Attach(d)
    \/ \E d \in Devices : Detach(d)
    \/ ScanStart
    \/ ScanSkip
    \/ ScanDone
    \/ \E id \in 1..MaxSessions : RemoveAllDone(id)
    \/ \E id \in 1..MaxSessions : PushDone(id)
    \/ \E id \in 1..MaxSessions : ReverseDone(id)
    \/ \E id \in 1..MaxSessions : DelayDone(id)
    \/ \E id \in 1..MaxSessions : ProcClose(id)
    \/ \E id \in 1..MaxSessions : AgentConnect(id)
    \/ \E id \in 1..MaxSessions : SocketClose(id)

Spec == Init /\ [][Next]_vars

(***************************************************************************)
(* Claims about ports, sessions and the scanner (Spec)                     *)
(***************************************************************************)
SessionIds == 1..Len(sessions)

\* the registry entry of a device names this session
Registered(id) == \E d \in DOMAIN activeClients : activeClients[d].client = id

\* C4: no two sessions that are running at the same time (each holding a
\* live listener, socket or agent subprocess) hold the same port.
C4_PortUniqueness ==
    \A i, j \in SessionIds :
        (i # j /\ Live(sessions[i]) /\ Live(sessions[j]))
            => sessions[i].port # sessions[j].port

\* C5: once a session has been torn down (stop() has run, whatever called
\* it) the port leased to it has been released: the pool no longer holds the
\* port on that session's behalf.
C5_ReleasedOnTeardown ==
    \A id \in SessionIds :
        sessions[id].stopped =>
            ~ \E d \in DOMAIN activeClients :
                  /\ activeClients[d].client = id
                  /\ activeClients[d].port \in usedPorts

\* C6: when every port of the range is leased the next allocation fails
\* instead of returning a port; after a scan that hit the failure the device
\* that triggered it has no registry entry, no keyframe cache entry and no
\* lease, the leases are exactly the ports of the registered sessions, and
\* once the scan has returned the scanner's flag is released.
C6_PortExhaustion ==
    /\ usedPorts \subseteq PortRange
    /\ usedPorts = PortRange => allocPort(usedPorts) = 0
    /\ Cardinality(DOMAIN activeClients) = Cardinality(usedPorts)
    /\ usedPorts = {activeClients[d].port : d \in DOMAIN activeClients}
    /\ DOMAIN deviceBuffers = DOMAIN activeClients
    /\ (\E d \in lastScan.seen : d \notin DOMAIN activeClients) => lastScan.exhausted # ""
    /\ lastScan.exhausted # "" =>
          /\ lastScan.exhausted \in lastScan.seen
          /\ lastScan.exhausted \notin DOMAIN activeClients
          /\ lastScan.exhausted \notin DOMAIN deviceBuffers
          /\ usedPorts = PortRange
          /\ scanPc = "idle" => ~ scanning

C6_Witness ==
    /\ lastScan.exhausted # ""
    /\ scanPc = "idle"
    /\ ~ scanning
    /\ Cardinality(DOMAIN activeClients) = NumPorts

\* C7: a completed scan that discovers the same device set as the completed
\* scan before it creates no session, stops no session and changes neither
\* the registry, the keyframe caches nor the leased ports.
C7_Step ==
    (scanPc = "awaiting" /\ scanPc' = "idle" /\ lastScan'.repeat)
        => /\ sessions' = sessions
           /\ activeClients' = activeClients
           /\ deviceBuffers' = deviceBuffers
           /\ usedPorts' = usedPorts

C7_IdempotentScan == [][C7_Step]_vars

C7_Witness ==
    /\ lastScan.repeat
    /\ scanPc = "idle"
    /\ lastScan.seen # {}
    /\ DOMAIN activeClients # {}

\* C12: at most one scan body is in flight and the flag is held exactly while
\* it is (so it is released when the tick finishes, also after the
\* port-exhaustion error); no step taken while a scan stays in flight, a
\* skipped tick included, changes the registry, the caches' key set, the
\* port pool or the pending scan, and a finished scan leaves none queued.
C12_Guard ==
    /\ scanPc \in {"idle", "awaiting"}
    /\ scanning <=> scanPc = "awaiting"

C12_Step ==
    /\ (scanning /\ scanning') =>
          /\ activeClients' = activeClients
          /\ DOMAIN deviceBuffers' = DOMAIN deviceBuffers
          /\ usedPorts' = usedPorts
          /\ scanPc' = scanPc
          /\ lastScan' = lastScan
    /\ (scanPc = "awaiting" /\ scanPc' # "awaiting") => (scanPc' = "idle" /\ ~ scanning')

C12_Reentrancy == [](C12_Guard) /\ [][C12_Step]_vars

\* a scan is in flight after the one before it ended with the error
C12_Witness ==
    /\ scanning
    /\ scanPc = "awaiting"
    /\ lastScan.exhausted # ""

\* C13: when a scan completes having observed the device set D without
\* running out of ports, the registered serials (and the cache keys) are
\* exactly D: every session registered for a serial outside D has been
\* stopped, its port freed and its entries removed; every serial of D that
\* was not registered has a session constructed by this scan, started (its
\* first adb command in flight), registered with a leased port and an empty
\* cache; the entries of the serials that stay are untouched.
C13_Step ==
    (scanPc = "awaiting" /\ scanPc' = "idle" /\ lastScan'.exhausted = "") =>
        LET D == lastScan'.seen
            old == DOMAIN activeClients
        IN /\ DOMAIN activeClients' = D
           /\ DOMAIN deviceBuffers' = D
           /\ \A d \in old \ D :
                 LET id == activeClients[d].client IN
                 /\ sessions'[id] = Stop(sessions[id])
                 /\ sessions'[id].stopped
                 /\ \/ activeClients[d].port \notin usedPorts'
                    \/ \E e \in D \ old : activeClients'[e].port = activeClients[d].port
           /\ \A d \in D \ old :
                 LET e == activeClients'[d] IN
                 /\ e.client \in (Len(sessions) + 1)..Len(sessions')
                 /\ sessions'[e.client] = NewSession(d, e.port)
                 /\ sessions'[e.client].pc = "removeAll"
                 /\ e.port \in usedPorts' /\ e.port \in PortRange
                 /\ deviceBuffers'[d] = EmptyCache
           /\ \A d \in D \cap old :
                 /\ activeClients'[d] = activeClients[d]
                 /\ deviceBuffers'[d] = deviceBuffers[d]
                 /\ sessions'[activeClients[d].client] = sessions[activeClients[d].client]
           /\ Len(sessions') = Len(sessions) + Cardinality(D \ old)

C13_ScanConvergence == [][C13_Step]_vars

\* a completed scan has removed one device's session and added another's
C13_Witness ==
    /\ scanPc = "idle"
    /\ lastScan.exhausted = ""
    /\ DOMAIN activeClients = lastScan.seen
    /\ \E i, j \in SessionIds :
         /\ sessions[i].serial \notin lastScan.seen
         /\ sessions[i].stopped
         /\ ~ Registered(i)
         /\ sessions[j].serial \in lastScan.seen
         /\ Registered(j)
         /\ sessions[j].pc = "removeAll"

\* C14: once the agent subprocess of a session has exited, the session is
\* torn down in full: its socket and listener are closed, its registry
\* entry is removed and its port is no longer leased to it.
C14_AgentExitTeardown ==
    \A id \in SessionIds :
        sessions[id].proc = "exited" =>
            /\ sessions[id].socket = "null"
            /\ sessions[id].localServer = "null"
            /\ ~ Registered(id)
            /\ ~ \E d \in DOMAIN activeClients :
                    /\ activeClients[d].client = id
                    /\ activeClients[d].port \in usedPorts

\* C15: a session whose start sequence failed at some step has been stopped,
\* runs no later step, has no listener and no agent subprocess left, and its
\* port has been released.
C15_StartFailure ==
    \A id \in SessionIds :
        sessions[id].pc = "failed" =>
            /\ sessions[id].stopped
            /\ sessions[id].localServer # "listening"
            /\ sessions[id].proc = "none"
            /\ ~ sessions[id].adbProcess
            /\ ~ \E d \in DOMAIN activeClients :
                    /\ activeClients[d].client = id
                    /\ activeClients[d].port \in usedPorts

\* C16: a session whose transport socket has closed (after an error or not)
\* has been torn down by stop(), as on exit of the agent subprocess: it does
\* not stay running with its listener or its agent subprocess.
C16_TransportFailure ==
    \A id \in SessionIds :
        sessions[id].socket = "closed" =>
            /\ sessions[id].stopped
            /\ sessions[id].localServer # "listening"
            /\ sessions[id].proc # "running"

\* C18: however many times and from whichever trigger stop() is invoked on
\* a session (scanner removal, the agent's close callback, the start-failure
\* handler), the 'stopped' notification is emitted once.
C18_StopOnce ==
    \A id \in SessionIds : sessions[id].stops <= 1

\* C19: once stop() has run on a session, whatever completes afterwards is
\* discarded: the session gets no listener, no agent subprocess and no open
\* socket (so it forwards no video packet and writes no touch message).
C19_NoWorkAfterStop ==
    \A id \in SessionIds :
        sessions[id].stopped =>
            /\ sessions[id].localServer # "listening"
            /\ sessions[id].proc # "running"
            /\ sessions[id].socket # "open"

\* C8: no two session objects for one serial hold a live listener, socket or
\* agent subprocess at the same time.
C8_OneSessionPerSerial ==
    \A i, j \in SessionIds :
        (i # j /\ sessions[i].serial = sessions[j].serial)
            => ~ (Live(sessions[i]) /\ Live(sessions[j]))

\* C22 - Registry consistency: in every state between scanner steps the
\* identifiers of the session registry are the identifiers that have a
\* keyframe cache, the leased ports are exactly the ports recorded in the
\* registry entries, and distinct entries hold distinct ports.
C22_RegistryConsistency ==
    /\ DOMAIN activeClients = DOMAIN deviceBuffers
    /\ usedPorts = {activeClients[d].port : d \in DOMAIN activeClients}
    /\ \A d, e \in DOMAIN activeClients :
          d # e => activeClients[d].port # activeClients[e].port
    /\ \A d \in DOMAIN activeClients :
          /\ activeClients[d].client \in SessionIds
          /\ sessions[activeClients[d].client].serial = d
          /\ sessions[activeClients[d].client].port = activeClients[d].port

\* a scan removed a device and released its port, and a later scan leased
\* the same port to the session of another device
C22_Witness ==
    \E d \in DOMAIN activeClients : \E id \in SessionIds :
        /\ sessions[id].serial # d
        /\ sessions[id].stopped
        /\ ~ Registered(id)
        /\ sessions[id].port = activeClients[d].port
        /\ usedPorts = {activeClients[d].port}
        /\ d \in DOMAIN deviceBuffers

-----------------------------------------------------------------------------
(* Viewers: the keyframe cache, the replay on connection and the broadcast *)
(***************************************************************************)
\* bounds: the 'video-data' events of a run and the WebSocket connections
MaxFrames == 4
MaxViewers == 1

\* payloads as the agent sends them: a start code and the NAL header byte
\* (0x67 and 0x27 are SPS, 0x68 PPS, 0x65 IDR, 0x41 a non-IDR slice)
VideoPackets ==
    {<<0, 0, 0, 1, 103>>, <<0, 0, 0, 1, 39>>, <<0, 0, 0, 1, 104>>,
     <<0, 0, 0, 1, 101>>, <<0, 0, 0, 1, 65>>}

\* buf[4] & 0x1f; buf[4] is undefined on a payload shorter than five bytes
\* and undefined & 0x1f is 0
NalType(buf) == IF Len(buf) >= 5 THEN buf[5] % 32 ELSE 0

\* cacheNal(serial, buf); an unset slot of the cache object is <<>> (a cached
\* payload has at least five bytes)
cacheNal(buffers, serial, buf) ==
    IF serial \notin DOMAIN buffers THEN buffers
    ELSE IF NalType(buf) = 7 THEN [buffers EXCEPT ![serial].sps = buf]
    ELSE IF NalType(buf) = 8 THEN [buffers EXCEPT ![serial].pps = buf]
    ELSE IF NalType(buf) = 5 THEN [buffers EXCEPT ![serial].idr = buf]
    ELSE buffers

\* broadcast(serial, data): ws.send on every open viewer of the serial
broadcastAll(vs, serial, data) ==
    [i \in DOMAIN vs |->
        IF vs[i].readyState = "OPEN"
        THEN [vs[i] EXCEPT !.recv = Append(@, data)]
        ELSE vs[i]]
broadcast(vs, serial, data) ==
    [i \in DOMAIN vs |->
        IF vs[i].readyState = "OPEN" /\ vs[i].serial = serial
        THEN [vs[i] EXCEPT !.recv = Append(@, data)]
        ELSE vs[i]]

\* the three `if (buf.x) ws.send(buf.x)` of the connection handler
ReplayIdrFirst(cache) ==
    (IF cache.idr # <<>> THEN <<cache.idr>> ELSE <<>>)
        \o (IF cache.sps # <<>> THEN <<cache.sps>> ELSE <<>>)
        \o (IF cache.pps # <<>> THEN <<cache.pps>> ELSE <<>>)
Replay(cache) ==
    (IF cache.sps # <<>> THEN <<cache.sps>> ELSE <<>>)
        \o (IF cache.pps # <<>> THEN <<cache.pps>> ELSE <<>>)
        \o (IF cache.idr # <<>> THEN <<cache.idr>> ELSE <<>>)

\* the session of device A is registered, started and its agent connected
RunningSession ==
    [NewSession("A", PORT_LOW) EXCEPT !.pc = "started",
                                      !.localServer = "listening",
                                      !.socket = "open",
                                      !.adbProcess = TRUE,
                                      !.proc = "running"]

InitView ==
    /\ attached = {"A"}
    /\ scanning = FALSE
    /\ scanPc = "idle"
    /\ sessions = <<RunningSession>>
    /\ activeClients = ("A" :> [client |-> 1, port |-> PORT_LOW])
    /\ deviceBuffers = ("A" :> EmptyCache)
    /\ usedPorts = {PORT_LOW}
    /\ lastScan = [n |-> 1, seen |-> {"A"}, repeat |-> FALSE, exhausted |-> ""]
    /\ IdleView
    /\ IdleFramer
    /\ deviceInfo = NewFramer.deviceInfo
    /\ IdleTouch

ViewIdle == UNCHANGED <<framerVars, deviceInfo, touchVars>>

\* bound: the power-state queries and status timers started in a run
MaxQueries == 3

\* a query or timer started on behalf of viewer v against session id
StartQuery(qs, op, v, id) ==
    Append(qs, [op |-> op, ws |-> v, client |-> id, state |-> "pending"])

\* the 'video-data' listener of a session: _processData emitted a payload
VideoData(id, data) ==
    /\ id \in 1..Len(sessions)
    /\ sessions[id].socket = "open"
    /\ Len(sent) < MaxFrames
    /\ deviceBuffers' = cacheNal(deviceBuffers, sessions[id].serial, data)
    /\ viewers' = broadcast(viewers, sessions[id].serial, data)
    /\ sent' = Append(sent, <<sessions[id].serial, data>>)
    /\ UNCHANGED <<attached, scanning, scanPc, sessions, activeClients, usedPorts,
                   lastScan, powerVars>>
    /\ ViewIdle

\* wss.on('connection') up to its first await; serial "" is a URL without
\* the parameter.  asked, joinedAt and cached are ghosts: the serial of the
\* URL, the number of events emitted and the cache of the serial when the
\* viewer connected.  ws.serial is set only past the check.  After the
\* replay sendPowerStatus(ws, target.client) starts its query.
ViewerConnect(serial) ==
    /\ Len(viewers) < MaxViewers
    /\ Len(queries) < MaxQueries
    /\ queries' = (IF serial = "" \/ serial \notin DOMAIN deviceBuffers
                   THEN queries
                   ELSE StartQuery(queries, "status", Len(viewers) + 1,
                                   activeClients[serial].client))
    /\ viewers' = Append(viewers,
          IF serial = "" \/ serial \notin DOMAIN deviceBuffers
          THEN [serial |-> "", asked |-> serial, readyState |-> "CLOSED",
                recv |-> <<>>,
                joinedAt |-> Len(sent), cached |-> EmptyCache]
          ELSE [serial |-> serial, asked |-> serial, readyState |-> "OPEN",
                recv |-> Replay(deviceBuffers[serial]),
                joinedAt |-> Len(sent), cached |-> deviceBuffers[serial]])
    /\ UNCHANGED <<attached, scanning, scanPc, sessions, activeClients, deviceBuffers,
                   usedPorts, lastScan, sent, effects>>
    /\ ViewIdle

\* the viewer goes away; ws.on('close') switches the screen of a device that
\* is still registered off: setScreenPower(false) starts its query
ViewerClose(v) ==
    /\ v \in 1..Len(viewers)
    /\ viewers[v].readyState = "OPEN"
    /\ Len(queries) < MaxQueries
    /\ viewers' = [viewers EXCEPT ![v].readyState = "CLOSED"]
    /\ queries' = (IF viewers[v].serial \in DOMAIN activeClients
                   THEN StartQuery(queries, "screenOff", v,
                                   activeClients[viewers[v].serial].client)
                   ELSE queries)
    /\ UNCHANGED <<attached, scanning, scanPc, sessions, activeClients, deviceBuffers,
                   usedPorts, lastScan, sent, effects>>
    /\ ViewIdle

NextView ==
    \/ \E id \in 1..MaxSessions, data \in VideoPackets : VideoData(id, data)
    \/ \E serial \in Devices \cup {""} : ViewerConnect(serial)
    \/ \E v \in 1..MaxViewers : ViewerClose(v)

SpecView == InitView /\ [][NextView]_vars

-----------------------------------------------------------------------------
(* Claims about the viewers (SpecView)                                     *)
(***************************************************************************)
RECURSIVE LiveSince(_, _, _)
\* the payloads emitted for a serial after the first `from` events
LiveSince(log, serial, from) ==
    IF from >= Len(log) THEN <<>>
    ELSE (IF log[from + 1][1] = serial THEN <<log[from + 1][2]>> ELSE <<>>)
             \o LiveSince(log, serial, from + 1)

IsPrefix(s, u) == Len(s) <= Len(u) /\ SubSeq(u, 1, Len(s)) = s

FullCache(cache) == cache.sps # <<>> /\ cache.pps # <<>> /\ cache.idr # <<>>

\* C9: a viewer that connected for a serial while SPS, PPS and IDR were all
\* cached has received exactly those three cached packets first, in the
\* order SPS, PPS, IDR, and everything it received after them is a live
\* packet emitted for its serial after it connected, in emission order.
C9_KeyframeReplay ==
    \A v \in 1..Len(viewers) :
        (viewers[v].serial # "" /\ FullCache(viewers[v].cached)) =>
            LET w == viewers[v]
                live == LiveSince(sent, w.serial, w.joinedAt)
            IN /\ Len(w.recv) >= 3
               /\ SubSeq(w.recv, 1, 3) = <<w.cached.sps, w.cached.pps, w.cached.idr>>
               /\ NalType(w.recv[1]) = 7
               /\ NalType(w.recv[2]) = 8
               /\ NalType(w.recv[3]) = 5
               /\ IsPrefix(SubSeq(w.recv, 4, Len(w.recv)), live)
               /\ w.readyState = "OPEN" => SubSeq(w.recv, 4, Len(w.recv)) = live

C9_Witness ==
    \E v \in 1..Len(viewers) :
        /\ viewers[v].serial # ""
        /\ FullCache(viewers[v].cached)
        /\ Len(viewers[v].recv) > 3

-----------------------------------------------------------------------------
(* SpecIso: the viewers while the scanner replaces the session of device A *)
(* (unplugged) by a session of device B (plugged in)                       *)
(***************************************************************************)
\* the payloads of this specification: an IDR slice (cached and broadcast)
\* and a non-IDR slice (broadcast only)
IsoPackets == {<<0, 0, 0, 1, 101>>, <<0, 0, 0, 1, 65>>}

InitIso ==
    /\ attached = {"B"}
    /\ scanning = FALSE
    /\ scanPc = "idle"
    /\ sessions = <<RunningSession>>
    /\ activeClients = ("A" :> [client |-> 1, port |-> PORT_LOW])
    /\ deviceBuffers = ("A" :> EmptyCache)
    /\ usedPorts = {PORT_LOW}
    /\ lastScan = [n |-> 1, seen |-> {"A"}, repeat |-> FALSE, exhausted |-> ""]
    /\ IdleView
    /\ IdleFramer
    /\ deviceInfo = NewFramer.deviceInfo
    /\ IdleTouch

NextIso ==
    \/ ScanStart
    \/ ScanDone
    \/ \E id \in 1..MaxSessions : RemoveAllDone(id)
    \/ \E id \in 1..MaxSessions : PushDone(id)
    \/ \E id \in 1..MaxSessions : ReverseDone(id)
    \/ \E id \in 1..MaxSessions : DelayDone(id)
    \/ \E id \in 1..MaxSessions : ProcClose(id)
    \/ \E id \in 1..MaxSessions : AgentConnect(id)
    \/ \E id \in 1..MaxSessions : SocketClose(id)
    \/ \E id \in 1..MaxSessions, data \in IsoPackets : VideoData(id, data)
    \/ \E serial \in Devices \cup {""} : ViewerConnect(serial)
    \/ \E v \in 1..MaxViewers : ViewerClose(v)

SpecIso == InitIso /\ [][NextIso]_vars

-----------------------------------------------------------------------------
(* Claims about the viewers across a change of the registry (SpecIso)      *)
(***************************************************************************)
\* the payloads emitted for a serial among the first n events
EmittedFor(serial, n) == {sent[k][2] : k \in {j \in 1..n : sent[j][1] = serial}}

\* every frame viewer w received is a cached frame of its serial, emitted for
\* that serial before it connected, or a live packet emitted for that serial
\* after it connected
C23_Delivered(w) ==
    LET live == LiveSince(sent, w.serial, w.joinedAt)
        replay == Replay(w.cached)
    IN /\ w.serial = w.asked
       /\ \A k \in 1..Len(replay) : replay[k] \in EmittedFor(w.serial, w.joinedAt)
       /\ IsPrefix(replay, w.recv)
       /\ IsPrefix(SubSeq(w.recv, Len(replay) + 1, Len(w.recv)), live)
       /\ w.readyState = "OPEN" => w.recv = replay \o live

\* a refused viewer is closed, has no serial and has received nothing
C23_Refused(w) ==
    /\ w.serial = ""
    /\ w.readyState = "CLOSED"
    /\ w.recv = <<>>

C23_Inv ==
    \A v \in 1..Len(viewers) :
        IF viewers[v].serial = "" THEN C23_Refused(viewers[v])
        ELSE C23_Delivered(viewers[v])

\* a connection with a missing serial, or with a serial that has no
\* registered session, is refused
C23_Step ==
    Len(viewers') = Len(viewers) + 1 =>
        LET w == viewers'[Len(viewers')] IN
        (w.asked = "" \/ w.asked \notin DOMAIN activeClients) => C23_Refused(w)

\* C23 - Viewer isolation: every video packet or cached keyframe frame
\* delivered to a viewer belongs to the identifier the viewer connected
\* with; a viewer that connects with a missing identifier, or with an
\* identifier that has no registered session, is closed at once and never
\* receives a video frame, even if a session for that identifier is
\* registered later.
C23_ViewerIsolation == [](C23_Inv) /\ [][C23_Step]_vars

\* a viewer of A holds frames of A, and frames of B were emitted after it
\* connected
C23_Witness ==
    \E v \in 1..Len(viewers) :
        /\ viewers[v].serial = "A"
        /\ viewers[v].readyState = "OPEN"
        /\ Len(viewers[v].recv) >= 2
        /\ \E k \in (viewers[v].joinedAt + 1)..Len(sent) : sent[k][1] = "B"
        /\ \E k \in (viewers[v].joinedAt + 1)..Len(sent) : sent[k][1] = "A"


(***************************************************************************)
KEY_EVENT_WAKE == 224
KEY_EVENT_SLEEP == 223

\* how `adb shell dumpsys power` can end: exit code 0 with the mWakefulness
\* line of its output, a non-zero exit code, or (code -1) the 'error' event
\* of a process that could not be spawned
QueryEndings ==
    {[code |-> 0, stdout |-> "mWakefulness=Awake"],
     [code |-> 0, stdout |-> "mWakefulness=Asleep"],
     [code |-> 0, stdout |-> "mWakefulness=Dozing"],
     [code |-> 1, stdout |-> ""],
     [code |-> -1, stdout |-> ""]}

\* runAdbCommand: resolve(out) on code 0, resolve('') on another code,
\* reject on 'error'
runAdbCommand(r) ==
    IF r.code = 0 THEN [settled |-> "resolved", output |-> r.stdout]
    ELSE IF r.code > 0 THEN [settled |-> "resolved", output |-> ""]
    ELSE [settled |-> "rejected", output |-> ""]

\* output.includes(line), the output reduced to its mWakefulness line
includes(output, line) == output = line

\* the status message of sendPowerStatus after its await, if it is delivered
StatusEffects(q, r) ==
    LET res == runAdbCommand(r) IN
    IF res.settled = "rejected" \/ viewers[q.ws].readyState # "OPEN" THEN <<>>
    ELSE <<[kind  |-> "status",
            ws    |-> q.ws,
            value |-> IF includes(res.output, "mWakefulness=Awake")
                      THEN "Awake" ELSE "Asleep",
            code  |-> r.code]>>

\* the key event of wakeScreen after its await
WakeEffects(q, r) ==
    LET res == runAdbCommand(r) IN
    IF res.settled = "rejected" THEN <<>>
    ELSE <<[kind  |-> "key",
            ws    |-> q.ws,
            value |-> IF includes(res.output, "mWakefulness=Asleep")
                      THEN KEY_EVENT_WAKE ELSE KEY_EVENT_SLEEP,
            code  |-> r.code]>>

\* the key event of setScreenPower(false) after its await
ScreenOffEffects(q, r) ==
    LET res == runAdbCommand(r) IN
    IF res.settled = "rejected" \/ ~ includes(res.output, "mWakefulness=Awake") THEN <<>>
    ELSE <<[kind |-> "key", ws |-> q.ws, value |-> 223, code |-> r.code]>>

PowerIdle ==
    /\ UNCHANGED <<sysVars, sent>>
    /\ ViewIdle

\* the 2 s status interval of an open viewer fires: sendPowerStatus
StatusPoll(v) ==
    /\ v \in 1..Len(viewers)
    /\ viewers[v].readyState = "OPEN"
    /\ viewers[v].serial \in DOMAIN activeClients
    /\ Len(queries) < MaxQueries
    /\ queries' = StartQuery(queries, "status", v, activeClients[viewers[v].serial].client)
    /\ UNCHANGED <<viewers, effects>>
    /\ PowerIdle

\* ws.on('message') with { type: 'wake' }: wakeScreen() starts its query
WakeMessage(v) ==
    /\ v \in 1..Len(viewers)
    /\ viewers[v].readyState = "OPEN"
    /\ viewers[v].serial \in DOMAIN activeClients
    /\ Len(queries) < MaxQueries
    /\ queries' = StartQuery(queries, "wake", v, activeClients[viewers[v].serial].client)
    /\ UNCHANGED <<viewers, effects>>
    /\ PowerIdle

\* the query of entry i ends with r and the awaiting function continues;
\* after wakeScreen() the message handler sets the 500 ms status timer
QueryDone(i, r) ==
    /\ i \in 1..Len(queries)
    /\ queries[i].state = "pending"
    /\ queries[i].op \in {"status", "wake", "screenOff"}
    /\ LET q == queries[i] IN
       /\ effects' = effects \o
             (IF q.op = "status" THEN StatusEffects(q, r)
              ELSE IF q.op = "wake" THEN WakeEffects(q, r)
              ELSE ScreenOffEffects(q, r))
       /\ queries' = [queries EXCEPT ![i] =
             IF q.op = "wake" THEN [q EXCEPT !.op = "timer"]
             ELSE [q EXCEPT !.state = "done"]]
    /\ UNCHANGED viewers
    /\ PowerIdle

\* the 500 ms timer set after a wake fires: sendPowerStatus, which returns
\* at once when the viewer is no longer open
TimerFire(i) ==
    /\ i \in 1..Len(queries)
    /\ queries[i].state = "pending"
    /\ queries[i].op = "timer"
    /\ queries' = [queries EXCEPT ![i] =
          IF viewers[queries[i].ws].readyState = "OPEN"
          THEN [@ EXCEPT !.op = "status"]
          ELSE [@ EXCEPT !.state = "done"]]
    /\ UNCHANGED <<viewers, effects>>
    /\ PowerIdle

NextPower ==
    \/ \E serial \in Devices \cup {""} : ViewerConnect(serial)
    \/ \E v \in 1..MaxViewers : ViewerClose(v)
    \/ \E v \in 1..MaxViewers : StatusPoll(v)
    \/ \E v \in 1..MaxViewers : WakeMessage(v)
    \/ \E i \in 1..MaxQueries, r \in QueryEndings : QueryDone(i, r)
    \/ \E i \in 1..MaxQueries : TimerFire(i)

SpecPower == InitView /\ [][NextPower]_vars

\* C20: when the shell query for the power state fails, the operation that
\* issued it performs no update: no wake-state status message reaches the
\* viewer and no wake or sleep key event is injected on its behalf.
C20_FailedQuerySkipped ==
    \A k \in 1..Len(effects) : effects[k].code = 0

====
